---- MODULE Spec2Model ----
(***************************************************************************)
(* Model of allpy: the atomless-distribution solver gtilde (constant-value *)
(* branch) and the two-player equilibrium search eq2p.                     *)
(*                                                                         *)
(* Real numbers are exact rationals <<n, d>> with d > 0 in lowest terms;   *)
(* floating-point rounding is not modelled.  Arrays are sequences; the     *)
(* indices the code stores (sbari, bari) keep Python's 0-based values.     *)
(***************************************************************************)
EXTENDS Integers, Sequences, FiniteSets, TLC

\* ---------------------------------------------------------------- bounds
MaxNum == 4
MaxDoublings == 3
\* default value of the num argument
DefaultNum == 1000

\* ------------------------------------------------------------- rationals
Abs(n) == IF n < 0 THEN 0 - n ELSE n

RECURSIVE GCD(_, _)
GCD(a, b) == IF b = 0 THEN a ELSE GCD(b, a % b)

Norm(n, d) ==
    LET sn == IF d < 0 THEN 0 - n ELSE n
        sd == Abs(d)
        g  == GCD(Abs(sn), sd)
    IN  <<sn \div g, sd \div g>>

Rat(n) == <<n, 1>>
RAdd(x, y) == Norm(x[1] * y[2] + y[1] * x[2], x[2] * y[2])
RSub(x, y) == Norm(x[1] * y[2] - y[1] * x[2], x[2] * y[2])
RMul(x, y) == Norm(x[1] * y[1], x[2] * y[2])
RDiv(x, y) == Norm(x[1] * y[2], x[2] * y[1])
RLeq(x, y) == x[1] * y[2] <= y[1] * x[2]
RLt(x, y)  == x[1] * y[2] < y[1] * x[2]
RMin(x, y) == IF RLt(y, x) THEN y ELSE x

\* ------------------------------------------------------ numpy primitives
\* Python's 0-based element access and slice arr[0:k]
At(arr, i) == arr[i + 1]
Last(arr) == arr[Len(arr)]
Slice0(arr, k) == SubSeq(arr, 1, IF k < Len(arr) THEN k ELSE Len(arr))

\* a linspace that divides by num instead of num - 1 (endpoint excluded)
linspace_noendpoint(start, stop, n) ==
    LET step == RDiv(RSub(stop, start), Rat(n))
    IN  [i \in 1..n |-> RAdd(start, RMul(Rat(i - 1), step))]

\* numpy.linspace(start, stop, num): start + i*step, step = (stop-start)/(num-1),
\* with the last point set to stop
linspace(start, stop, n) ==
    IF n = 1 THEN <<start>>
    ELSE LET step == RDiv(RSub(stop, start), Rat(n - 1))
         IN  [i \in 1..n |-> IF i = n THEN stop ELSE RAdd(start, RMul(Rat(i - 1), step))]

\* numpy.insert(numpy.diff(a), 0, a[0])
diff_insert(a) ==
    [i \in 1..Len(a) |-> IF i = 1 THEN a[1] ELSE RSub(a[i], a[i - 1])]

\* arr[mask]: the elements of arr at the positions where mask is TRUE, in order
\* (the range lo..hi is split in halves to keep the evaluation shallow)
RECURSIVE BoolIndexRange(_, _, _, _)
BoolIndexRange(arr, mask, lo, hi) ==
    IF lo > hi THEN <<>>
    ELSE IF lo = hi THEN (IF mask[lo] THEN <<arr[lo]>> ELSE <<>>)
    ELSE LET mid == (lo + hi) \div 2
         IN  BoolIndexRange(arr, mask, lo, mid) \o BoolIndexRange(arr, mask, mid + 1, hi)

BoolIndex(arr, mask) == BoolIndexRange(arr, mask, 1, Len(arr))

\* numpy.argmax(a): 0-based position of the first maximal element
argmax(a) ==
    (CHOOSE j \in 1..Len(a) :
        /\ \A m \in 1..Len(a) : RLeq(a[m], a[j])
        /\ \A m \in 1..(j - 1) : RLt(a[m], a[j])) - 1

\* ------------------------------------------------------------ the inputs
\* constant (non-callable) values and the cost functions callers pass
Values == {1, 2}
Costs == {"lin", "sq", "steep", "hump"}

\* cost functions: c(s) = s, c(s) = s**2, c(s) = 2*s,
\* and c(s) = 4*(s-1)**2 + 1/2, which is not monotone
CostFn(name, s) ==
    CASE name = "lin"   -> s
      [] name = "sq"    -> RMul(s, s)
      [] name = "steep" -> RMul(Rat(2), s)
      [] name = "hump"  -> RAdd(RMul(Rat(4), RMul(RSub(s, Rat(1)), RSub(s, Rat(1)))), <<1, 2>>)

\* b = None
None == <<0, 0>>

\* the v argument: a bare number, or a tuple of numbers
VForms ==
    [scalar : {TRUE}, items : {<<a>> : a \in Values}]
    \cup [scalar : {FALSE},
          items : {<<>>, <<1, 1, 1>>} \cup {<<a>> : a \in Values}
                  \cup {<<a, b>> : a \in Values, b \in Values}]

\* the c argument: a bare callable, or a tuple of callables
CForms ==
    [callable : {TRUE}, items : {<<a>> : a \in Costs}]
    \cup [callable : {FALSE},
          items : {<<>>, <<"lin", "lin", "lin">>} \cup {<<a>> : a \in Costs}
                  \cup {<<a, b>> : a \in Costs, b \in Costs}]

BoundHints == {None, <<1, 2>>, <<1, 1>>, <<2, 1>>, <<4, 1>>}

\* ---------------------------------------------------------------- gtilde
NoDist ==
    [ok |-> FALSE, s |-> <<>>, pdf |-> <<>>, cdf |-> <<>>,
     sbari |-> 0, sbar |-> Rat(0), success |-> FALSE]

\* the grid of num points from b/num to b
Grid(bb, n) == linspace(RDiv(bb, Rat(n)), bb, n)

\* the exact cdf of the constant-value case, ci(sgrid) / vi
DegenerateCdf(vi, ci, sgrid) ==
    [i \in 1..Len(sgrid) |-> RDiv(CostFn(ci, sgrid[i]), Rat(vi))]

\* a mask that selects cdfi < 1
MaskStrict(cdfi) == [i \in 1..Len(cdfi) |-> RLt(cdfi[i], Rat(1))]

\* the mask cdfi <= 1
Mask(cdfi) == [i \in 1..Len(cdfi) |-> RLeq(cdfi[i], Rat(1))]

\* a success flag that accepts cdfi[-1] = 1
SuccessGeq(cdfi) == RLeq(Rat(1), Last(cdfi))

\* the success flag cdfi[-1] > 1
Success(cdfi) == RLt(Rat(1), Last(cdfi))

\* the constant-value branch of gtilde and its return value; ok = FALSE when
\* numpy.argmax raises on the empty selection
gtilde(vi, ci, bb, n) ==
    LET sgrid == Grid(bb, n)
        cdfi  == DegenerateCdf(vi, ci, sgrid)
        pdfi  == diff_insert(cdfi)
        sel   == BoolIndex(sgrid, Mask(cdfi))
    IN  IF sel = <<>> THEN NoDist
        ELSE LET bari == argmax(sel)
             IN  [ok |-> TRUE,
                  s |-> sgrid,
                  pdf |-> [i \in 1..n |-> RMul(pdfi[i], Rat(n))],
                  cdf |-> cdfi,
                  sbari |-> bari,
                  sbar |-> At(sgrid, bari),
                  success |-> Success(cdfi)]

\* ------------------------------------------------------------------ eq2p
VARIABLES pc, v, c, num, b, b0, iter, v1, v2, c1, c2, player1, player2, result, err

vars == <<pc, v, c, num, b, b0, iter, v1, v2, c1, c2, player1, player2, result, err>>

NoResult ==
    [s |-> <<>>, pdf |-> <<<<>>, <<>>>>, cdf |-> <<<<>>, <<>>>>,
     sbari |-> 0, sbar |-> Rat(0), b |-> None]

ErrV == "ValueError: v should be a tuple of length 1 or 2"
ErrC == "ValueError: c should be a tuple of length 1 or 2"
ErrUnpack == "ValueError: wrong number of values to unpack"
ErrLen == "TypeError: object has no len()"
ErrArgmax == "ValueError: attempt to get an argmax of an empty sequence"

\* interpretation of v: scalar, 2-tuple, 1-tuple, else ValueError
InterpretV(vv) ==
    IF vv.scalar THEN [err |-> "", a |-> vv.items[1], b |-> vv.items[1]]
    ELSE IF Len(vv.items) = 2 THEN [err |-> "", a |-> vv.items[1], b |-> vv.items[2]]
    ELSE IF Len(vv.items) = 1 THEN [err |-> "", a |-> vv.items[1], b |-> vv.items[1]]
    ELSE [err |-> ErrV, a |-> 0, b |-> 0]

\* interpretation of c: callable, 2-tuple, then the branch taken on len(v) == 1
InterpretC(vv, cc) ==
    IF cc.callable THEN [err |-> "", a |-> cc.items[1], b |-> cc.items[1]]
    ELSE IF Len(cc.items) = 2 THEN [err |-> "", a |-> cc.items[1], b |-> cc.items[2]]
    ELSE IF vv.scalar THEN [err |-> ErrLen, a |-> "", b |-> ""]
    ELSE IF Len(vv.items) = 1 THEN
        IF Len(cc.items) = 1 THEN [err |-> "", a |-> cc.items[1], b |-> cc.items[1]]
        ELSE [err |-> ErrUnpack, a |-> "", b |-> ""]
    ELSE [err |-> ErrC, a |-> "", b |-> ""]

\* the guess of b with fixed prize and linear cost
GuessBound(va, ca, vb, cb, n) ==
    LET b1 == RDiv(Rat(va), RMul(CostFn(ca, <<1, n>>), Rat(n)))
        b2 == RDiv(Rat(vb), RMul(CostFn(cb, <<1, n>>), Rat(n)))
    IN  RMin(b1, b2)

\* the two solver calls of one iteration, each player from the same-numbered inputs
SolveUncrossed(va, ca, vb, cb, bb, n) ==
    [p1 |-> gtilde(va, ca, bb, n), p2 |-> gtilde(vb, cb, bb, n)]

\* the two solver calls of one iteration: player2 from (v1, c1), player1 from (v2, c2)
Solve(va, ca, vb, cb, bb, n) ==
    [p2 |-> gtilde(va, ca, bb, n), p1 |-> gtilde(vb, cb, bb, n)]

\* a retry that leaves b as it is
Stalled(bb) == bb

\* a retry that triples b
Tripled(bb) == RMul(Rat(3), bb)

\* b = 2 * b
Doubled(bb) == RMul(Rat(2), bb)

\* a shift by the first entry instead of the last
AtomAdjustFirst(G) == [i \in 1..Len(G) |-> RAdd(RSub(G[i], G[1]), Rat(1))]

\* G - G[-1] + 1
AtomAdjust(G) == [i \in 1..Len(G) |-> RAdd(RSub(G[i], Last(G)), Rat(1))]

\* a cutoff at the larger of the two indices
CutoffIndexMax(p1, p2) == IF p2.sbari > p1.sbari THEN p2.sbari ELSE p1.sbari

\* bari = min([player1["sbari"], player2["sbari"]])
CutoffIndex(p1, p2) == IF p2.sbari < p1.sbari THEN p2.sbari ELSE p1.sbari

\* lines 111-127: the Equilibrium built from the two distributions
Equilibrium(p1, p2, bb) ==
    LET bari == CutoffIndex(p1, p2)
        G1 == Slice0(p1.cdf, bari + 1)
        G2 == Slice0(p2.cdf, bari + 1)
        sgrid == Slice0(p1.s, bari + 1)
    IN  [s |-> sgrid,
         pdf |-> <<Slice0(p1.pdf, bari + 1), Slice0(p2.pdf, bari + 1)>>,
         cdf |-> <<AtomAdjust(G1), AtomAdjust(G2)>>,
         sbari |-> bari,
         sbar |-> Last(sgrid),
         b |-> bb]

\* the default arguments v = (1.0,), c = (lambda x: x,), with b = None or b = 1
DefaultCall(vv, cc, bb) ==
    /\ vv = [scalar |-> FALSE, items |-> <<1>>]
    /\ cc = [callable |-> FALSE, items |-> <<"lin">>]
    /\ bb \in {None, <<1, 1>>}

Init ==
    /\ pc = "start"
    /\ v \in VForms
    /\ c \in CForms
    /\ b \in BoundHints
    /\ num \in (1..MaxNum) \cup {DefaultNum}
    /\ num = DefaultNum => DefaultCall(v, c, b)
    /\ b0 = None
    /\ iter = 0
    /\ v1 = 0 /\ v2 = 0 /\ c1 = "" /\ c2 = ""
    /\ player1 = NoDist /\ player2 = NoDist
    /\ result = NoResult
    /\ err = ""

\* lines 64-74: v is rejected
RejectV ==
    /\ pc = "start"
    /\ InterpretV(v).err # ""
    /\ pc' = "RAISED"
    /\ err' = InterpretV(v).err
    /\ UNCHANGED <<v, c, num, b, b0, iter, v1, v2, c1, c2, player1, player2, result>>

\* lines 64-86: v is accepted, c is rejected
RejectC ==
    /\ pc = "start"
    /\ InterpretV(v).err = ""
    /\ InterpretC(v, c).err # ""
    /\ pc' = "RAISED"
    /\ err' = InterpretC(v, c).err
    /\ v1' = InterpretV(v).a /\ v2' = InterpretV(v).b
    /\ UNCHANGED <<v, c, num, b, b0, iter, c1, c2, player1, player2, result>>

\* lines 64-100: both inputs are accepted and the starting bound is fixed
Interpret ==
    /\ pc = "start"
    /\ InterpretV(v).err = ""
    /\ InterpretC(v, c).err = ""
    /\ v1' = InterpretV(v).a /\ v2' = InterpretV(v).b
    /\ c1' = InterpretC(v, c).a /\ c2' = InterpretC(v, c).b
    /\ b' = IF b = None THEN GuessBound(v1', c1', v2', c2', num) ELSE b
    /\ b0' = b'
    /\ pc' = "SEARCHING"
    /\ UNCHANGED <<v, c, num, iter, player1, player2, result, err>>

\* lines 102-127: one iteration of the loop.  player2 is solved first, then
\* player1; a raise of either call ends eq2p; with a valid player the loop ends
\* and the Equilibrium is returned; otherwise b is doubled for the next iteration
Iterate ==
    /\ pc = "SEARCHING"
    /\ LET r == Solve(v1, c1, v2, c2, b, num)
       IN  IF ~r.p2.ok \/ ~r.p1.ok
           THEN /\ player2' = IF r.p2.ok THEN r.p2 ELSE player2
                /\ pc' = "RAISED"
                /\ err' = ErrArgmax
                /\ UNCHANGED <<b, iter, player1, result>>
           ELSE IF r.p1.success \/ r.p2.success
           THEN /\ player2' = r.p2
                /\ player1' = r.p1
                /\ result' = Equilibrium(r.p1, r.p2, b)
                /\ pc' = "CONVERGED"
                /\ UNCHANGED <<b, iter, err>>
           ELSE /\ iter < MaxDoublings
                /\ player2' = r.p2
                /\ player1' = r.p1
                /\ b' = Doubled(b)
                /\ iter' = iter + 1
                /\ UNCHANGED <<pc, result, err>>
    /\ UNCHANGED <<v, c, num, b0, v1, v2, c1, c2>>

Next ==
    \/ RejectV
    \/ RejectC
    \/ Interpret
    \/ Iterate

Spec == Init /\ [][Next]_vars

\* ------------------------------------------------------------ properties
RECURSIVE Pow2(_)
Pow2(k) == IF k = 0 THEN 1 ELSE 2 * Pow2(k - 1)

\* the i-th grid point (i = 1..n) in closed form, i * b / n
GridPoint(bb, n, i) == Norm(i * bb[1], n * bb[2])

\* c(s) / V at every closed-form grid point
ExactCdf(vi, ci, bb, n) ==
    [i \in 1..n |-> RDiv(CostFn(ci, GridPoint(bb, n, i)), Rat(vi))]

IsDegenerateDist(dist, vi, ci, bb, n) ==
    /\ dist.ok
    /\ Len(dist.s) = n
    /\ Len(dist.cdf) = n
    /\ \A i \in 1..n : dist.s[i] = GridPoint(bb, n, i)
    /\ dist.cdf = ExactCdf(vi, ci, bb, n)

\* the solve with (vi, ci) at bound B is valid: cdf at the last grid point B exceeds 1
ValidAt(vi, ci, B) == RLt(Rat(1), RDiv(CostFn(ci, B), Rat(vi)))

SomeValidAt(B) == ValidAt(v1, c1, B) \/ ValidAt(v2, c2, B)

\* the cdf exceeds 1 at every grid point
AllAbove(vi, ci, bb, n) ==
    \A i \in 1..n : RLt(Rat(1), RDiv(CostFn(ci, GridPoint(bb, n, i)), Rat(vi)))

NonDecreasing(a) == \A i \in 1..(Len(a) - 1) : RLeq(a[i], a[i + 1])

Players == <<player1, player2>>

MinIndex == IF player2.sbari < player1.sbari THEN player2.sbari ELSE player1.sbari

\* C1: every Distribution the constant-value branch of gtilde returns has exactly
\* num grid points s[i] = (i+1)*b/num and cdf[i] = ci(s[i]) / V at each of them
Thm_C1 ==
    [][/\ player2' # player2 => IsDegenerateDist(player2', v1, c1, b, num)
       /\ player1' # player1 => IsDegenerateDist(player1', v2, c2, b, num)]_vars

Wit_C1 ==
    /\ pc = "CONVERGED" /\ iter >= 1 /\ num >= 3
    /\ player1.ok /\ player2.ok /\ c1 # "lin"

\* C2: in every returned Distribution sbari is the largest grid index with
\* cdf <= 1, sbar = s[sbari], cdf[sbari] <= 1, and cdf[sbari+1] > 1 unless
\* sbari is the last index
Claim_C2 ==
    \A p \in 1..2 :
        LET d == Players[p]
            below == {i \in 1..Len(d.cdf) : RLeq(d.cdf[i], Rat(1))}
            largest == CHOOSE i \in below : \A j \in below : j <= i
        IN  d.ok =>
              /\ below # {}
              /\ d.sbari = largest - 1
              /\ d.sbar = At(d.s, d.sbari)
              /\ RLeq(At(d.cdf, d.sbari), Rat(1))
              /\ d.sbari + 1 < Len(d.cdf) => RLt(Rat(1), At(d.cdf, d.sbari + 1))

\* C3: the call with value 1, cost c(s) = s, num = 1000 and starting bound 1
\* (given or guessed) fails for both players at bound 1, doubles exactly once,
\* is valid at bound 2 and returns b = 2 and sbar = 1
Thm_C3 ==
    num = DefaultNum =>
        /\ pc # "RAISED"
        /\ pc = "SEARCHING" /\ iter = 0 => b = Rat(1)
        /\ pc = "SEARCHING" /\ iter >= 1 =>
              /\ iter = 1
              /\ b = Rat(2)
              /\ ~player1.success /\ ~player2.success
              /\ Last(player1.cdf) = Rat(1) /\ Last(player2.cdf) = Rat(1)
              /\ SomeValidAt(b)
              /\ ~AllAbove(v1, c1, b, num) /\ ~AllAbove(v2, c2, b, num)
        /\ pc = "CONVERGED" =>
              /\ iter = 1
              /\ player1.success \/ player2.success
              /\ result.b = Rat(2)
              /\ result.sbar = Rat(1)

Wit_C3 ==
    /\ num = DefaultNum /\ pc = "CONVERGED"
    /\ result.b = Rat(2) /\ result.sbari = 499

\* C4 as stated: in every returned Equilibrium, for every pair of cost
\* functions, 1 - cdf_i[bari] >= 0 for both players at bari = min(sbari_1, sbari_2)
Claim_C4 ==
    pc = "CONVERGED" =>
        \A p \in 1..2 : RLeq(Rat(0), RSub(Rat(1), At(Players[p].cdf, MinIndex)))

\* C4 amended: whenever both players' un-adjusted solver cdfs are non-decreasing
\* on the grid, the returned cutoff index is min(sbari_1, sbari_2) and both atom
\* masses 1 - cdf_i[cutoff index] are non-negative
Thm_C4 ==
    pc = "CONVERGED" /\ NonDecreasing(player1.cdf) /\ NonDecreasing(player2.cdf) =>
        /\ result.sbari = MinIndex
        /\ \A p \in 1..2 :
              RLeq(Rat(0), RSub(Rat(1), At(Players[p].cdf, result.sbari)))

Wit_C4 ==
    /\ pc = "CONVERGED" /\ NonDecreasing(player1.cdf) /\ NonDecreasing(player2.cdf)
    /\ player1.sbari # player2.sbari
    /\ \E p \in 1..2 : RLt(Rat(0), RSub(Rat(1), At(Players[p].cdf, result.sbari)))

InputErrors == {ErrV, ErrC, ErrUnpack, ErrLen}

\* C5: every combination of a v tuple of length 1 or 2 with a c tuple of length
\* 1 or 2 is accepted, a length-1 input serving both players; a tuple of any
\* other length is rejected with a ValueError before any solver call
Claim_C5 ==
    /\ ~v.scalar /\ ~c.callable /\ Len(v.items) \in {1, 2} /\ Len(c.items) \in {1, 2} =>
          /\ ~(pc = "RAISED" /\ err \in InputErrors)
          /\ pc \in {"SEARCHING", "CONVERGED"} =>
                /\ v1 = v.items[1] /\ v2 = v.items[Len(v.items)]
                /\ c1 = c.items[1] /\ c2 = c.items[Len(c.items)]
    /\ (/\ pc # "start" /\ ~v.scalar /\ ~c.callable
        /\ Len(v.items) \notin {1, 2} \/ Len(c.items) \notin {1, 2}) =>
          /\ pc = "RAISED" /\ err \in {ErrV, ErrC, ErrUnpack}
          /\ player1 = NoDist /\ player2 = NoDist

\* bounds B >= b0 in half steps of b0, up to the largest bound the search tries
CandidateBounds == {RMul(<<m, 2>>, b0) : m \in 2..(2 * Pow2(MaxDoublings))}

\* the search has started and some candidate bound makes a player valid
ValidBoundExists == b0 # None /\ \E B \in CandidateBounds : SomeValidAt(B)

\* the doublings k for which a player is valid at b0 * 2^k
ValidDoublings ==
    IF b0 = None THEN {}
    ELSE {k \in 0..MaxDoublings : SomeValidAt(RMul(Rat(Pow2(k)), b0))}

Thm_C7 ==
    pc = "CONVERGED" =>
        \A p \in 1..2 :
            LET G == result.cdf[p]
                src == Players[p].cdf
                n == result.sbari + 1
            IN  /\ Len(G) = n
                /\ G[n] = Rat(1)
                /\ \A i \in 1..n : RSub(G[i], src[i]) = RSub(Rat(1), src[n])

Wit_C7 ==
    /\ pc = "CONVERGED" /\ result.sbari >= 1
    /\ At(player1.cdf, result.sbari) # Rat(1)
    /\ At(player2.cdf, result.sbari) # At(player1.cdf, result.sbari)

\* C8: the returned bound is b0 * 2^k for the least k >= 0 at which a player is
\* valid, b0 being the caller's bound or the minimum over players of
\* value_i / (cost_i(1/num) * num); b changes only by doubling, exactly in the
\* iterations where neither player is valid, and the loop stops at the first
\* iteration with a valid player
Thm_C8 ==
    /\ [](pc = "CONVERGED" =>
            /\ result.b = RMul(Rat(Pow2(iter)), b0)
            /\ SomeValidAt(result.b)
            /\ \A j \in 0..(iter - 1) : ~SomeValidAt(RMul(Rat(Pow2(j)), b0)))
    /\ [][/\ pc = "start" /\ pc' = "SEARCHING" =>
                b0' = IF b # None THEN b
                      ELSE RMin(RDiv(Rat(v1'), RMul(CostFn(c1', <<1, num>>), Rat(num))),
                                RDiv(Rat(v2'), RMul(CostFn(c2', <<1, num>>), Rat(num))))
          /\ pc = "SEARCHING" =>
                /\ b' # b <=> ~SomeValidAt(b)
                /\ b' # b => b' = RAdd(b, b) /\ pc' = "SEARCHING"
                /\ pc' = "CONVERGED" => SomeValidAt(b)
          /\ pc \notin {"start", "SEARCHING"} => b' = b]_vars

Wit_C8 == pc = "CONVERGED" /\ iter = 2 /\ result.b = RMul(Rat(4), b0)

\* C9: in every iteration and in the returned Equilibrium, player 1's pdf and
\* cdf come from (v2, c2) and player 2's from (v1, c1): the un-adjusted cdfs are
\* c2(s)/v2 and c1(s)/v1 on the common grid
Thm_C9 ==
    /\ [](pc = "CONVERGED" =>
            LET n == result.sbari + 1
                e1 == ExactCdf(v2, c2, b, num)
                e2 == ExactCdf(v1, c1, b, num)
            IN  /\ player1.cdf = e1 /\ player2.cdf = e2
                /\ result.pdf = <<Slice0(player1.pdf, n), Slice0(player2.pdf, n)>>
                /\ result.cdf[1] = [i \in 1..n |-> RAdd(e1[i], RSub(Rat(1), e1[n]))]
                /\ result.cdf[2] = [i \in 1..n |-> RAdd(e2[i], RSub(Rat(1), e2[n]))]
                /\ result.s = [i \in 1..n |-> GridPoint(b, num, i)])
    /\ [][pc = "SEARCHING" =>
            /\ player1' # player1 => player1'.cdf = ExactCdf(v2, c2, b, num)
            /\ player2' # player2 => player2'.cdf = ExactCdf(v1, c1, b, num)]_vars

Wit_C9 ==
    /\ pc = "CONVERGED" /\ v1 # v2 /\ c1 # c2
    /\ result.cdf[1] # result.cdf[2]

\* C10: a solver call raises exactly when its cdf exceeds 1 at every grid
\* point, and eq2p then ends with that error, the bound not doubled and no
\* Equilibrium returned; otherwise both calls return a Distribution
Thm_C10 ==
    [][pc = "SEARCHING" =>
        /\ pc' = "RAISED" <=> (AllAbove(v1, c1, b, num) \/ AllAbove(v2, c2, b, num))
        /\ pc' = "RAISED" =>
              /\ err' = ErrArgmax
              /\ b' = b /\ iter' = iter
              /\ result' = NoResult
              /\ player1' = player1
              /\ player2' # player2 => ~AllAbove(v1, c1, b, num)
        /\ pc' # "RAISED" =>
              /\ player1'.ok /\ player2'.ok
              /\ \E i \in 1..num : RLeq(player1'.cdf[i], Rat(1))
              /\ \E i \in 1..num : RLeq(player2'.cdf[i], Rat(1))]_vars

Wit_C10 ==
    /\ pc = "RAISED" /\ err = ErrArgmax /\ iter >= 1
    /\ result = NoResult /\ player2.ok

====
